---- MODULE Spec2Model ----
(***************************************************************************)
(* Model of the arithmetic kernel of fpdec (fpdec-core/src/lib.rs) and of  *)
(* the integer conversions and num_traits::Signed glue of the Decimal type *)
(* (src/into_int.rs, src/num_traits.rs).                                   *)
(*                                                                         *)
(* The machine word of the source is 128 bits, split into two 64-bit half  *)
(* words; a 256-bit value is a pair of words.  TLC's integers are 32 bits, *)
(* so the model keeps every width of the source as a multiple of HalfBits: *)
(* u64 is HalfBits bits, u128/i128 are 2*HalfBits bits, the 256-bit pair   *)
(* is 4*HalfBits bits.  All arithmetic is Rust's: `+ - *` on a word        *)
(* overflow when the exact result leaves the word (a panic in a build      *)
(* with overflow checks, a wrap otherwise), `wrapping_*` always wrap,      *)
(* `/` and `%` truncate and panic on MIN / -1, `<<` drops the bits shifted *)
(* out.  Every operation is a pure function: a behaviour draws the         *)
(* arguments of one call in Init and the action of the called function     *)
(* computes its result.                                                    *)
(***************************************************************************)
EXTENDS Integers, Sequences, FiniteSets, TLC

VARIABLES op, arg, build, pc, res

vars == <<op, arg, build, pc, res>>

\* Number of bits of a half word (64 in the source).
HalfBits == 3

RECURSIVE Pow(_, _)
Pow(b, n) == IF n = 0 THEN 1 ELSE b * Pow(b, n - 1)

\* Number of bits of u128 / i128.
WordBits == 2 * HalfBits

\* const B: u128 = 1 << 64
B == Pow(2, HalfBits)

\* u128::MAX + 1
TwoW == Pow(2, WordBits)

UMax == TwoW - 1
IMax == (TwoW \div 2) - 1
IMin == -(TwoW \div 2)

U128 == 0 .. UMax
I128 == IMin .. IMax

Abs(i) == IF i < 0 THEN -i ELSE i

\* The words a call of the 256-bit division is tried on are those at most
\* Near away from a multiple of a quarter of the range of a word: around 0,
\* around the top bit and around u128::MAX.
Near == 8

Samples ==
    {u \in U128 : \E k \in 0 .. 4 : Abs(u - k * (TwoW \div 4)) <= Near}

\* The two builds of the crate: with and without overflow checks.
Builds == {"debug", "release"}

\* The value a u128 keeps of an exact result (two's complement wrap).
Wrap(v) == v % TwoW

\* The value an i128 keeps of an exact result.
WrapI(v) == LET u == v % TwoW IN IF u > IMax THEN u - TwoW ELSE u

\* The exact result does not fit the unsigned word.
OvfU(v) == v < 0 \/ v > UMax

\* The exact result does not fit the signed word.
OvfI(v) == v < IMin \/ v > IMax

\* u << n on a u128: bits shifted out are dropped.
Shl(u, n) == (u * Pow(2, n)) % TwoW

\* u >> n on a u128.
Shr(u, n) == u \div Pow(2, n)

RECURSIVE BitOr(_, _)
BitOr(a, b) ==
    IF a = 0 THEN b
    ELSE IF b = 0 THEN a
    ELSE (IF a % 2 = 1 \/ b % 2 = 1 THEN 1 ELSE 0) + 2 * BitOr(a \div 2, b \div 2)

\* x.unsigned_abs()
unsigned_abs(x) == Abs(x)

\* u as i128
as_i128(u) == WrapI(u)

\* Truncating division and remainder of Rust's `/` and `%` (y # 0).
TruncDiv(x, y) ==
    LET m == Abs(x) \div Abs(y) IN IF (x < 0) # (y < 0) THEN -m ELSE m

TruncRem(x, y) == x - y * TruncDiv(x, y)

u128_hi(u) == u \div B

u128_lo(u) == u % B

\* IDX_MAP of u128_msb
IDX_MAP == <<0, 1, 2, 2, 3, 3, 3, 3, 4, 4, 4, 4, 4, 4, 4, 4>>

\* Index of the most significant bit of a non-zero word.  The steps for the
\* masks of 64 and 32 bits never fire on a word of the model (they need a
\* word above 2^32) and are left out; the others are the source's.
u128_msb(i0) ==
    LET s16 == (i0 \div 65536) # 0
        n16 == IF s16 THEN 16 ELSE 0
        i16 == IF s16 THEN i0 \div 65536 ELSE i0
        s8  == ((i16 \div 256) % 256) # 0
        n8  == IF s8 THEN n16 + 8 ELSE n16
        i8  == IF s8 THEN i16 \div 256 ELSE i16
        s4  == ((i8 \div 16) % 16) # 0
        n4  == IF s4 THEN n8 + 4 ELSE n8
        i4  == IF s4 THEN i8 \div 16 ELSE i8
    IN  n4 + IDX_MAP[(i4 % 16) + 1] - 1

\* `let v = e; rest` of the source: rest with v standing for the value of e.
Let(e, rest(_)) == rest(e)

\* u128_mul_u128 that drops the carry of the second cross product into the
\* high word.
u128_mul_u128_no_carry(x, y) ==
    Let(u128_hi(x), LAMBDA xh :
    Let(u128_lo(x), LAMBDA xl :
    Let(u128_hi(y), LAMBDA yh :
    Let(u128_lo(y), LAMBDA yl :
    Let(xl * yl, LAMBDA e1 :
    Let(Wrap(e1), LAMBDA t1 :
    Let(u128_lo(t1), LAMBDA rl1 :
    Let(xl * yh + u128_hi(t1), LAMBDA e2 :
    Let(Wrap(e2), LAMBDA t2 :
    Let(u128_hi(t2), LAMBDA rh1 :
    Let(xh * yl + u128_lo(t2), LAMBDA e3 :
    Let(Wrap(e3), LAMBDA t3 :
    Let(rl1 + Shl(u128_lo(t3), HalfBits), LAMBDA e4 :
    Let(rh1 + xh * yh, LAMBDA e5 :
    [tag |-> "ok",
     hi  |-> Wrap(e5),
     lo  |-> Wrap(e4),
     ovf |-> OvfU(e1) \/ OvfU(e2) \/ OvfU(e3) \/ OvfU(e4) \/ OvfU(e5)]
    ))))))))))))))

\* Exact unsigned multiply u128 x u128 -> (high, low).  e1 .. e5 are the
\* exact values of the five checked expressions
\*   xl * yl, xl * yh + hi(t), xh * yl + lo(t), rl + (lo(t) << 64),
\*   rh + xh * yh + hi(t);
\* ovf: one of them left the 128-bit accumulator.
u128_mul_u128(x, y) ==
    Let(u128_hi(x), LAMBDA xh :
    Let(u128_lo(x), LAMBDA xl :
    Let(u128_hi(y), LAMBDA yh :
    Let(u128_lo(y), LAMBDA yl :
    Let(xl * yl, LAMBDA e1 :
    Let(Wrap(e1), LAMBDA t1 :
    Let(u128_lo(t1), LAMBDA rl1 :
    Let(xl * yh + u128_hi(t1), LAMBDA e2 :
    Let(Wrap(e2), LAMBDA t2 :
    Let(u128_hi(t2), LAMBDA rh1 :
    Let(xh * yl + u128_lo(t2), LAMBDA e3 :
    Let(Wrap(e3), LAMBDA t3 :
    Let(rl1 + Shl(u128_lo(t3), HalfBits), LAMBDA e4 :
    Let(rh1 + xh * yh + u128_hi(t3), LAMBDA e5 :
    [tag |-> "ok",
     hi  |-> Wrap(e5),
     lo  |-> Wrap(e4),
     ovf |-> OvfU(e1) \/ OvfU(e2) \/ OvfU(e3) \/ OvfU(e4) \/ OvfU(e5)]
    ))))))))))))))

\* u256_idiv_u64: x = x / y in place (x = xh * 2^128 + xl), returns x % y,
\* for a divisor of one half word.  e1 .. e5 are the exact values of the
\* five checked sums.
u256_idiv_u64(xh, xl, y) ==
    IF y = 1 THEN [xh |-> xh, xl |-> xl, r |-> 0, ovf |-> FALSE]
    ELSE
    Let(u128_hi(xh), LAMBDA th1 :
    Let(th1 % y, LAMBDA r1 :
    Let(Shl(r1, HalfBits) + u128_lo(xh), LAMBDA e1 :
    Let(Wrap(e1), LAMBDA tl1 :
    Let(Shl(th1 \div y, HalfBits) + tl1 \div y, LAMBDA e2 :
    Let(tl1 % y, LAMBDA r2 :
    Let(Shl(r2, HalfBits) + u128_hi(xl), LAMBDA e3 :
    Let(Wrap(e3), LAMBDA th2 :
    Let(th2 % y, LAMBDA r3 :
    Let(Shl(r3, HalfBits) + u128_lo(xl), LAMBDA e4 :
    Let(Wrap(e4), LAMBDA tl2 :
    Let(Shl(th2 \div y, HalfBits) + tl2 \div y, LAMBDA e5 :
    [xh  |-> Wrap(e2),
     xl  |-> Wrap(e5),
     r   |-> tl2 % y,
     ovf |-> OvfU(e1) \/ OvfU(e2) \/ OvfU(e3) \/ OvfU(e4) \/ OvfU(e5)]
    ))))))))))))

\* A correction loop that tests the digit against the high half of the
\* divisor only (`while q >= B`), without the cross-multiplication test.
RECURSIVE CorrectionLoop_no_cross_test(_, _, _, _, _, _, _)
CorrectionLoop_no_cross_test(q, rhat, yn1, yn0, xn, n, ovf) ==
    LET q2    == Wrap(q - 1)
        rhat2 == Wrap(rhat + yn1)
        o2    == ovf \/ OvfU(q - 1) \/ OvfU(rhat + yn1)
    IN  IF ~(q >= B) THEN [q |-> q, rhat |-> rhat, n |-> n, ovf |-> ovf]
        ELSE IF rhat2 >= B THEN [q |-> q2, rhat |-> rhat2, n |-> n + 1, ovf |-> o2]
        ELSE CorrectionLoop_no_cross_test(q2, rhat2, yn1, yn0, xn, n + 1, o2)

\* One quotient-digit correction loop of u256_idiv_u128_special:
\*   while q >= B || q * yn0 > rhat * B + xn { q -= 1; rhat += yn1;
\*                                             if rhat >= B { break; } }
\* n counts the decrements; ovf: a checked `*`, `+` or `-` that was
\* evaluated left the word (`||` does not evaluate its right side when
\* q >= B).
RECURSIVE CorrectionLoop(_, _, _, _, _, _, _)
CorrectionLoop(q, rhat, yn1, yn0, xn, n, ovf) ==
    LET lhs   == q * yn0
        rhs   == rhat * B + xn
        o     == IF q >= B THEN ovf ELSE ovf \/ OvfU(lhs) \/ OvfU(rhs)
        c     == q >= B \/ Wrap(lhs) > Wrap(rhs)
        q2    == Wrap(q - 1)
        rhat2 == Wrap(rhat + yn1)
        o2    == o \/ OvfU(q - 1) \/ OvfU(rhat + yn1)
    IN  IF ~c THEN [q |-> q, rhat |-> rhat, n |-> n, ovf |-> o]
        ELSE IF rhat2 >= B THEN [q |-> q2, rhat |-> rhat2, n |-> n + 1, ovf |-> o2]
        ELSE CorrectionLoop(q2, rhat2, yn1, yn0, xn, n + 1, o2)

\* The record u256_idiv_u128_special leaves when it is not called.
NoSpecial ==
    [xh |-> 0, xl |-> 0, r |-> 0, ovf |-> FALSE, called |-> FALSE,
     yn |-> 0, xn32 |-> 0, xn1 |-> 0, xn0 |-> 0,
     q1 |-> 0, n1 |-> 0, t |-> 0, tExact |-> 0,
     q0 |-> 0, n0 |-> 0, rExact |-> 0]

\* u256_idiv_u128_special: x = x / y in place, returns x % y, for
\* y >= 2^64 and xh < y (Algorithm D for m = 4, n = 2).  Besides the result
\* (xh, xl, r) the record keeps the locals of the call: the normalized
\* divisor yn, the normalized dividend digits, the two quotient digits with
\* the number of decrements of their loops, and the two partial remainders
\* both as the wrapping arithmetic leaves them (t) and exactly (tExact,
\* rExact).
u256_idiv_u128_special(xh, xl, y) ==
    Let((WordBits - 1) - u128_msb(y), LAMBDA n_bits :
    Let(Shl(y, n_bits), LAMBDA yn :
    Let(u128_hi(yn), LAMBDA yn1 :
    Let(u128_lo(yn), LAMBDA yn0 :
    Let(IF n_bits = 0 THEN 0 ELSE Shr(xl, WordBits - n_bits), LAMBDA sh :
    Let(BitOr(Shl(xh, n_bits), sh), LAMBDA xn32 :
    Let(Shl(xl, n_bits), LAMBDA xn10 :
    Let(u128_hi(xn10), LAMBDA xn1 :
    Let(u128_lo(xn10), LAMBDA xn0 :
    Let(CorrectionLoop(xn32 \div yn1, xn32 % yn1, yn1, yn0, xn1, 0, FALSE),
        LAMBDA l1 :
    Let(xn32 * B + xn1 - l1.q * yn, LAMBDA tExact :
    Let(Wrap(tExact), LAMBDA t :
    Let(CorrectionLoop(t \div yn1, t % yn1, yn1, yn0, xn0, 0, FALSE),
        LAMBDA l0 :
    Let(l1.q * B + l0.q, LAMBDA e1 :
    Let(t * B + xn0 - l0.q * yn, LAMBDA rExact :
    [xh |-> 0,
     xl |-> Wrap(e1),
     r  |-> Shr(Wrap(rExact), n_bits),
     ovf |-> l1.ovf \/ l0.ovf \/ OvfU(l1.q * B) \/ OvfU(e1),
     called |-> TRUE,
     yn |-> yn, xn32 |-> xn32, xn1 |-> xn1, xn0 |-> xn0,
     q1 |-> l1.q, n1 |-> l1.n, t |-> t, tExact |-> tExact,
     q0 |-> l0.q, n0 |-> l0.n, rExact |-> rExact]
    )))))))))))))))

\* The record of a call of u256_idiv_u128: the quotient (xh, xl) left in
\* place, the remainder r, the tier of the dispatch that was taken and the
\* locals of the call of u256_idiv_u128_special, if any.
Divided(xh, xl, r, ovf, tier, sp) ==
    [tag |-> "ok", xh |-> xh, xl |-> xl, r |-> r, ovf |-> ovf,
     tier |-> tier, sp |-> sp]

\* u256_idiv_u128 whose third tier hands the whole high word to
\* u256_idiv_u128_special instead of its remainder modulo the divisor.
u256_idiv_u128_no_reduce(xh, xl, y) ==
    IF u128_hi(y) = 0 THEN
        Let(u256_idiv_u64(xh, xl, u128_lo(y)), LAMBDA d :
            Divided(d.xh, d.xl, d.r, d.ovf, 1, NoSpecial))
    ELSE IF xh < y THEN
        Let(u256_idiv_u128_special(xh, xl, y), LAMBDA d :
            Divided(d.xh, d.xl, d.r, d.ovf, 2, d))
    ELSE
        Let(u256_idiv_u128_special(xh, xl, y), LAMBDA d :
            Divided(xh \div y, d.xl, d.r, d.ovf, 3, d))

\* u256_idiv_u128: x = x / y in place, returns x % y (y # 0).
u256_idiv_u128(xh, xl, y) ==
    IF u128_hi(y) = 0 THEN
        Let(u256_idiv_u64(xh, xl, u128_lo(y)), LAMBDA d :
            Divided(d.xh, d.xl, d.r, d.ovf, 1, NoSpecial))
    ELSE IF xh < y THEN
        Let(u256_idiv_u128_special(xh, xl, y), LAMBDA d :
            Divided(d.xh, d.xl, d.r, d.ovf, 2, d))
    ELSE
        Let(u256_idiv_u128_special(xh % y, xl, y), LAMBDA d :
            Divided(xh \div y, d.xl, d.r, d.ovf, 3, d))

\* The result of a call that has not returned.
NoRes == [tag |-> "none"]

\* What a call returns in the given build when its checked arithmetic
\* computed d: a panic when an operation overflowed in a build with overflow
\* checks, d with the wrapped values otherwise.
Returned(b, d) ==
    IF d.tag # "panic" /\ d.ovf /\ b = "debug" THEN [tag |-> "panic"] ELSE d

\* Largest index of the table of powers of ten: the largest n with 10^n in
\* the range of a word (38 in the source).
RECURSIVE TenPowMaxFrom(_)
TenPowMaxFrom(n) == IF Pow(10, n + 1) > IMax THEN n ELSE TenPowMaxFrom(n + 1)

TenPowMax == TenPowMaxFrom(0)

\* The maximum number of fractional decimal digits of a Decimal: every
\* index of the table of the model (18 of 38 in the source).
MAX_N_FRAC_DIGITS == TenPowMax

\* ten_pow(n) = 10^n, looked up in the table.
ten_pow(n) == Pow(10, n)

\* mul_pow_ten(x, n) = x * 10^n; traps when the product leaves the i128.
mul_pow_ten(x, n) ==
    LET e == x * ten_pow(n)
    IN  IF OvfI(e) THEN [tag |-> "panic"] ELSE [tag |-> "ok", v |-> e]

\* checked_mul_pow_ten(x, n) = Some(x * 10^n), None when the product leaves
\* the i128.
checked_mul_pow_ten(x, n) ==
    LET e == x * ten_pow(n)
    IN  IF OvfI(e) THEN [tag |-> "None"] ELSE [tag |-> "Some", v |-> e]

Some(v) == [tag |-> "Some", v |-> v]

\* adjust_coeffs with the branches of Greater and Less exchanged: the
\* coefficient with the larger scale is rescaled.
adjust_coeffs_swapped(x, p, y, q) ==
    IF p = q THEN [tag |-> "ok", x |-> x, y |-> y]
    ELSE IF p < q THEN
        LET m == mul_pow_ten(y, q - p)
        IN  IF m.tag = "panic" THEN m ELSE [tag |-> "ok", x |-> x, y |-> m.v]
    ELSE
        LET m == mul_pow_ten(x, p - q)
        IN  IF m.tag = "panic" THEN m ELSE [tag |-> "ok", x |-> m.v, y |-> y]

\* adjust_coeffs(x, p, y, q) -> (i128, i128)
adjust_coeffs(x, p, y, q) ==
    IF p = q THEN [tag |-> "ok", x |-> x, y |-> y]
    ELSE IF p > q THEN
        LET m == mul_pow_ten(y, p - q)
        IN  IF m.tag = "panic" THEN m ELSE [tag |-> "ok", x |-> x, y |-> m.v]
    ELSE
        LET m == mul_pow_ten(x, q - p)
        IN  IF m.tag = "panic" THEN m ELSE [tag |-> "ok", x |-> m.v, y |-> y]

\* checked_adjust_coeffs(x, p, y, q) -> (Option<i128>, Option<i128>)
checked_adjust_coeffs(x, p, y, q) ==
    IF p = q THEN [tag |-> "ok", x |-> Some(x), y |-> Some(y)]
    ELSE IF p > q THEN
        [tag |-> "ok", x |-> Some(x), y |-> checked_mul_pow_ten(y, p - q)]
    ELSE
        [tag |-> "ok", x |-> checked_mul_pow_ten(x, q - p), y |-> Some(y)]

\* i128_div_mod_floor(x, y) for y # 0.  `x / y` overflows and panics in
\* every build for x = i128::MIN, y = -1; ovf: a checked `-` or `+` left the
\* i128.
i128_div_mod_floor(x, y) ==
    IF x = IMin /\ y = -1 THEN [tag |-> "panic"]
    ELSE
    Let(TruncDiv(x, y), LAMBDA q :
    Let(TruncRem(x, y), LAMBDA r :
    IF (r > 0 /\ y < 0) \/ (r < 0 /\ y > 0)
    THEN [tag |-> "ok", q |-> WrapI(q - 1), r |-> WrapI(r + y),
          ovf |-> OvfI(q - 1) \/ OvfI(r + y)]
    ELSE [tag |-> "ok", q |-> q, r |-> r, ovf |-> FALSE]
    ))

\* The sign adjustment `q = q.neg() - 1` of the two composites.
NegMinusOne(q) ==
    [v |-> WrapI(WrapI(-q) - 1), ovf |-> OvfI(-q) \/ OvfI(WrapI(-q) - 1)]

\* Some((q, r)) of the two composites.
SomePair(q, r, ovf) == [tag |-> "Some", q |-> q, r |-> r, ovf |-> ovf]

\* i128_shifted_div_mod_floor(x, p, y) for y # 0: Some((q, r)) or None.
\* ovf: a checked operation left its word.
i128_shifted_div_mod_floor(x, p, y) ==
    Let(u128_mul_u128(unsigned_abs(x), ten_pow(p)), LAMBDA m :
    Let(u256_idiv_u128(m.hi, m.lo, unsigned_abs(y)), LAMBDA d :
    Let(m.ovf \/ d.ovf, LAMBDA o :
    IF d.xh # 0 \/ d.xl > IMax THEN [tag |-> "None", ovf |-> o]
    ELSE
    Let(as_i128(d.xl), LAMBDA q0 :
    Let(as_i128(d.r), LAMBDA r0 :
    Let(NegMinusOne(q0), LAMBDA nq :
    IF x < 0 THEN
        IF y < 0
        THEN SomePair(q0, WrapI(-r0), o \/ OvfI(-r0))
        ELSE SomePair(nq.v, WrapI(y - r0), o \/ nq.ovf \/ OvfI(y - r0))
    ELSE IF y < 0
        THEN SomePair(nq.v, WrapI(r0 - y), o \/ nq.ovf \/ OvfI(r0 - y))
        ELSE SomePair(q0, r0, o)
    ))))))

\* i256_div_mod_floor(x1, x2, y) for y > 0: Some((q, r)) or None.
i256_div_mod_floor(x1, x2, y) ==
    Let(u128_mul_u128(unsigned_abs(x1), unsigned_abs(x2)), LAMBDA m :
    Let(u256_idiv_u128(m.hi, m.lo, unsigned_abs(y)), LAMBDA d :
    Let(m.ovf \/ d.ovf, LAMBDA o :
    IF d.xh # 0 \/ d.xl > IMax THEN [tag |-> "None", ovf |-> o]
    ELSE
    Let(as_i128(d.xl), LAMBDA q0 :
    Let(as_i128(d.r), LAMBDA r0 :
    Let(NegMinusOne(q0), LAMBDA nq :
    IF (x1 < 0) # (x2 < 0)
    THEN SomePair(nq.v, WrapI(y - r0), o \/ nq.ovf \/ OvfI(y - r0))
    ELSE SomePair(q0, r0, o)
    ))))))

\* A Decimal: coefficient and number of fractional digits.
Decimal == [coeff : I128, n_frac_digits : 0 .. MAX_N_FRAC_DIGITS]

new_raw(c, n) == [coeff |-> c, n_frac_digits |-> n]

\* Decimal::ZERO, Decimal::ONE
ZERO == new_raw(0, 0)

ONE == new_raw(1, 0)

\* Order of two Decimals by value: "Less", "Equal" or "Greater".
cmp(a, b) ==
    LET l == a.coeff * Pow(10, b.n_frac_digits)
        r == b.coeff * Pow(10, a.n_frac_digits)
    IN  IF l < r THEN "Less" ELSE IF l = r THEN "Equal" ELSE "Greater"

\* -a
neg(a) ==
    IF OvfI(-a.coeff) THEN [tag |-> "panic"]
    ELSE [tag |-> "ok", v |-> new_raw(-a.coeff, a.n_frac_digits)]

\* a - b: the difference of the coefficients at the larger of the two
\* scales; traps when it leaves the i128.
sub(a, b) ==
    LET n == IF a.n_frac_digits > b.n_frac_digits
             THEN a.n_frac_digits ELSE b.n_frac_digits
        e == a.coeff * Pow(10, n - a.n_frac_digits)
             - b.coeff * Pow(10, n - b.n_frac_digits)
    IN  IF OvfI(a.coeff * Pow(10, n - a.n_frac_digits))
           \/ OvfI(b.coeff * Pow(10, n - b.n_frac_digits)) \/ OvfI(e)
        THEN [tag |-> "panic"]
        ELSE [tag |-> "ok", v |-> new_raw(e, n)]

\* An integer type: signed or not, and its number of bits.
UInt(bits) == [signed |-> FALSE, bits |-> bits]

SInt(bits) == [signed |-> TRUE, bits |-> bits]

\* i128
T_i128 == SInt(WordBits)

\* The types of impl_into_int!(): u8, i8, ..., u64, i64 (the widths up to a
\* half word) and u128.
MacroIntTypes ==
    {UInt(b) : b \in 1 .. HalfBits} \cup {SInt(b) : b \in 1 .. HalfBits}
        \cup {UInt(WordBits)}

TypeMin(T) == IF T.signed THEN -Pow(2, T.bits - 1) ELSE 0

TypeMax(T) == IF T.signed THEN Pow(2, T.bits - 1) - 1 ELSE Pow(2, T.bits) - 1

Ok(v) == [tag |-> "Ok", v |-> v]

Err(e) == [tag |-> "Err", e |-> e]

\* <T>::try_from(i: i128)
try_from(T, i) ==
    IF i < TypeMin(T) \/ i > TypeMax(T) THEN Err("TryFromIntError") ELSE Ok(i)

\* try_into for i128 that returns the coefficient of an integral value
\* without dividing it by 10^n_frac_digits.
try_into_i128_no_div(d) ==
    IF d.n_frac_digits = 0 \/ d.coeff = 0 THEN Ok(d.coeff)
    ELSE LET t == ten_pow(d.n_frac_digits)
         IN  IF TruncRem(d.coeff, t) = 0 THEN Ok(d.coeff)
             ELSE Err("NotAnIntValue")

\* impl TryInto<i128> for Decimal
try_into_i128(d) ==
    IF d.n_frac_digits = 0 \/ d.coeff = 0 THEN Ok(d.coeff)
    ELSE LET t == ten_pow(d.n_frac_digits)
         IN  IF TruncRem(d.coeff, t) = 0 THEN Ok(TruncDiv(d.coeff, t))
             ELSE Err("NotAnIntValue")

\* impl TryInto<$t> for Decimal, for the types of impl_into_int!()
try_into_int(d, T) ==
    LET i == try_into_i128(d)
    IN  IF i.tag = "Ok"
        THEN IF try_from(T, i.v).tag = "Ok" THEN Ok(i.v) ELSE Err("ValueOutOfRange")
        ELSE i

\* TryInto::<T>::try_into(d)
try_into(d, T) == IF T = T_i128 THEN try_into_i128(d) ELSE try_into_int(d, T)

\* Signed::abs_sub
abs_sub(a, b) ==
    IF cmp(b, a) # "Greater" THEN [tag |-> "ok", v |-> ZERO] ELSE sub(a, b)

\* Signed::signum
signum(a) ==
    LET c == cmp(a, ZERO)
    IN  IF c = "Less" THEN neg(ONE)
        ELSE IF c = "Equal" THEN [tag |-> "ok", v |-> ZERO]
        ELSE [tag |-> "ok", v |-> ONE]

\* Signed::is_positive
is_positive(a) == cmp(a, ZERO) = "Greater"

\* Signed::is_negative
is_negative(a) == cmp(a, ZERO) = "Less"

----------------------------------------------------------------------------
(* u128_mul_u128                                                           *)

InitMul ==
    /\ op = "u128_mul_u128"
    /\ arg \in U128 \X U128
    /\ build \in Builds
    /\ pc = "call"
    /\ res = NoRes

CallMul ==
    /\ pc = "call"
    /\ op = "u128_mul_u128"
    /\ res' = Returned(build, u128_mul_u128(arg[1], arg[2]))
    /\ pc' = "ret"
    /\ UNCHANGED <<op, arg, build>>

NextMul == CallMul

SpecMul == InitMul /\ [][NextMul]_vars

----------------------------------------------------------------------------
(* u256_idiv_u128                                                          *)

InitIdiv ==
    /\ op = "u256_idiv_u128"
    /\ arg \in Samples \X Samples \X (Samples \ {0})
    /\ build \in Builds
    /\ pc = "call"
    /\ res = NoRes

CallIdiv ==
    /\ pc = "call"
    /\ op = "u256_idiv_u128"
    /\ res' = Returned(build, u256_idiv_u128(arg[1], arg[2], arg[3]))
    /\ pc' = "ret"
    /\ UNCHANGED <<op, arg, build>>

NextIdiv == CallIdiv

SpecIdiv == InitIdiv /\ [][NextIdiv]_vars

----------------------------------------------------------------------------
(* i128_div_mod_floor                                                      *)

InitDivModFloor ==
    /\ op = "i128_div_mod_floor"
    /\ arg \in I128 \X (I128 \ {0})
    /\ build \in Builds
    /\ pc = "call"
    /\ res = NoRes

CallDivModFloor ==
    /\ pc = "call"
    /\ op = "i128_div_mod_floor"
    /\ res' = Returned(build, i128_div_mod_floor(arg[1], arg[2]))
    /\ pc' = "ret"
    /\ UNCHANGED <<op, arg, build>>

NextDivModFloor == CallDivModFloor

SpecDivModFloor == InitDivModFloor /\ [][NextDivModFloor]_vars

----------------------------------------------------------------------------
(* i128_shifted_div_mod_floor and i256_div_mod_floor                       *)

InitShifted ==
    /\ op = "i128_shifted_div_mod_floor"
    /\ arg \in I128 \X (0 .. TenPowMax) \X (I128 \ {0})
    /\ build \in Builds
    /\ pc = "call"
    /\ res = NoRes

CallShifted ==
    /\ pc = "call"
    /\ op = "i128_shifted_div_mod_floor"
    /\ res' = Returned(build, i128_shifted_div_mod_floor(arg[1], arg[2], arg[3]))
    /\ pc' = "ret"
    /\ UNCHANGED <<op, arg, build>>

NextShifted == CallShifted

SpecShifted == InitShifted /\ [][NextShifted]_vars

InitDouble ==
    /\ op = "i256_div_mod_floor"
    /\ arg \in I128 \X I128 \X (1 .. IMax)
    /\ build \in Builds
    /\ pc = "call"
    /\ res = NoRes

CallDouble ==
    /\ pc = "call"
    /\ op = "i256_div_mod_floor"
    /\ res' = Returned(build, i256_div_mod_floor(arg[1], arg[2], arg[3]))
    /\ pc' = "ret"
    /\ UNCHANGED <<op, arg, build>>

NextDouble == CallDouble

SpecDouble == InitDouble /\ [][NextDouble]_vars

InitComposite == InitShifted \/ InitDouble

NextComposite == CallShifted \/ CallDouble

SpecComposite == InitComposite /\ [][NextComposite]_vars

----------------------------------------------------------------------------
(* adjust_coeffs and checked_adjust_coeffs                                 *)

InitAdjust ==
    /\ op \in {"adjust_coeffs", "checked_adjust_coeffs"}
    /\ arg \in I128 \X (0 .. MAX_N_FRAC_DIGITS) \X I128 \X (0 .. MAX_N_FRAC_DIGITS)
    /\ build \in Builds
    /\ pc = "call"
    /\ res = NoRes

CallAdjust ==
    /\ pc = "call"
    /\ op = "adjust_coeffs"
    /\ res' = adjust_coeffs(arg[1], arg[2], arg[3], arg[4])
    /\ pc' = "ret"
    /\ UNCHANGED <<op, arg, build>>

CallCheckedAdjust ==
    /\ pc = "call"
    /\ op = "checked_adjust_coeffs"
    /\ res' = checked_adjust_coeffs(arg[1], arg[2], arg[3], arg[4])
    /\ pc' = "ret"
    /\ UNCHANGED <<op, arg, build>>

NextAdjust == CallAdjust \/ CallCheckedAdjust

SpecAdjust == InitAdjust /\ [][NextAdjust]_vars

----------------------------------------------------------------------------
(* TryInto<T> for Decimal                                                  *)

InitIntoInt ==
    /\ op = "try_into"
    /\ arg \in Decimal \X (MacroIntTypes \cup {T_i128})
    /\ build \in Builds
    /\ pc = "call"
    /\ res = NoRes

CallIntoInt ==
    /\ pc = "call"
    /\ op = "try_into"
    /\ res' = try_into(arg[1], arg[2])
    /\ pc' = "ret"
    /\ UNCHANGED <<op, arg, build>>

NextIntoInt == CallIntoInt

SpecIntoInt == InitIntoInt /\ [][NextIntoInt]_vars

----------------------------------------------------------------------------
(* num_traits::Signed for Decimal                                          *)

InitSigned ==
    /\ op \in {"abs_sub", "signum"}
    /\ arg \in Decimal \X Decimal
    /\ op = "signum" => arg[2] = ZERO
    /\ build \in Builds
    /\ pc = "call"
    /\ res = NoRes

CallAbsSub ==
    /\ pc = "call"
    /\ op = "abs_sub"
    /\ res' = abs_sub(arg[1], arg[2])
    /\ pc' = "ret"
    /\ UNCHANGED <<op, arg, build>>

CallSignum ==
    /\ pc = "call"
    /\ op = "signum"
    /\ res' = signum(arg[1])
    /\ pc' = "ret"
    /\ UNCHANGED <<op, arg, build>>

NextSigned == CallAbsSub \/ CallSignum

SpecSigned == InitSigned /\ [][NextSigned]_vars

----------------------------------------------------------------------------
(* Claims                                                                  *)

Returns(o) == pc = "ret" /\ op = o

\* q is the floor quotient and r the floor remainder of n by y:
\* n = q * y + r, |r| < |y|, and r is zero or has the sign of y.
IsFloorDivMod(n, y, q, r) ==
    /\ n = q * y + r
    /\ Abs(r) < Abs(y)
    /\ (r = 0 \/ ((r < 0) <=> (y < 0)))

\* C1: for every i128 x and every i128 y # 0, i128_div_mod_floor(x, y)
\* returns, without trapping or wrapping, a pair (q, r) with x = q * y + r,
\* 0 <= |r| < |y| and r = 0 or sign(r) = sign(y), the range edges
\* x = i128::MIN, y = -1 and y = i128::MIN included.
C1_DivModFloorTotal ==
    Returns("i128_div_mod_floor") =>
        /\ res.tag = "ok"
        /\ ~res.ovf
        /\ IsFloorDivMod(arg[1], arg[2], res.q, res.r)

\* C1, what the code does: the call returns the floor pair for every input
\* but x = i128::MIN, y = -1, where `x / y` panics in every build.
C1_DivModFloorButMinByMinusOne ==
    Returns("i128_div_mod_floor") =>
        IF arg[1] = IMin /\ arg[2] = -1
        THEN res.tag = "panic"
        ELSE /\ res.tag = "ok"
             /\ ~res.ovf
             /\ IsFloorDivMod(arg[1], arg[2], res.q, res.r)

\* Floor of n / y for y # 0.
FloorDiv(n, y) == IF y > 0 THEN n \div y ELSE (-n) \div (-y)

\* C2: for every i128 x, every p of the table and every i128 y # 0,
\* whenever i128_shifted_div_mod_floor returns Some((q, r)), then
\* x * 10^p = q * y + r, 0 <= |r| < |y| and r is zero or has the sign of y,
\* in each of the four sign combinations, also when the division is exact
\* and when x = 0.
C2_ShiftedIsFloor ==
    (Returns("i128_shifted_div_mod_floor") /\ res.tag = "Some") =>
        IsFloorDivMod(arg[1] * Pow(10, arg[2]), arg[3], res.q, res.r)

\* C2, what the code does: the pair is the floor pair when x and y have the
\* same sign (x = 0 counting as positive) or the division is inexact with
\* x < 0 < y.
C2_ShiftedIsFloorSameSign ==
    (/\ Returns("i128_shifted_div_mod_floor") /\ res.tag = "Some"
     /\ \/ (arg[1] < 0) <=> (arg[3] < 0)
        \/ arg[1] < 0 /\ (arg[1] * Pow(10, arg[2])) % arg[3] # 0) =>
        IsFloorDivMod(arg[1] * Pow(10, arg[2]), arg[3], res.q, res.r)

\* C3: for every i128 x1, x2 and every i128 y > 0, whenever
\* i256_div_mod_floor returns Some((q, r)), (q, r) is the floor division of
\* the exact product: x1 * x2 = q * y + r with 0 <= r < y, also when the
\* product is zero with one negative operand or negative and divisible by y.
C3_DoubleIsFloor ==
    (Returns("i256_div_mod_floor") /\ res.tag = "Some") =>
        /\ arg[1] * arg[2] = res.q * arg[3] + res.r
        /\ 0 <= res.r /\ res.r < arg[3]

\* C3, what the code does: the pair is the floor pair unless the operands
\* have different signs (zero counting as positive) and y divides the
\* product.
C3_DoubleIsFloorInexact ==
    (/\ Returns("i256_div_mod_floor") /\ res.tag = "Some"
     /\ ~(((arg[1] < 0) # (arg[2] < 0)) /\ (arg[1] * arg[2]) % arg[3] = 0)) =>
        /\ arg[1] * arg[2] = res.q * arg[3] + res.r
        /\ 0 <= res.r /\ res.r < arg[3]

\* The exact dividend of a call of a composite.
Dividend ==
    IF op = "i128_shifted_div_mod_floor" THEN arg[1] * Pow(10, arg[2])
    ELSE arg[1] * arg[2]

\* C4: for both composites the result is None if and only if the magnitude
\* of the true floor quotient exceeds i128::MAX; in every other case a value
\* is returned, and computing it never wraps or overflows a signed 128-bit
\* intermediate.
C4_NoneIffOverflow ==
    (pc = "ret" /\ op \in {"i128_shifted_div_mod_floor", "i256_div_mod_floor"}) =>
        /\ res.tag \in {"Some", "None"}
        /\ ~res.ovf
        /\ (res.tag = "None" <=> Abs(FloorDiv(Dividend, arg[3])) > IMax)

Max(a, b) == IF a > b THEN a ELSE b

\* C5: adjust_coeffs and checked_adjust_coeffs leave the coefficient with
\* the larger scale (both, when p = q) unchanged and multiply the other by
\* 10^|p - q|, so that both denote the original values at the scale
\* max(p, q).  checked_adjust_coeffs reports overflow per side: the side not
\* rescaled is Some(original), the rescaled side is None exactly when its
\* product leaves the i128, and when both sides are Some they are the
\* result of adjust_coeffs.
C5_AdjustToCommonScale ==
    LET x  == arg[1]
        p  == arg[2]
        y  == arg[3]
        q  == arg[4]
        ex == x * Pow(10, Max(p, q) - p)
        ey == y * Pow(10, Max(p, q) - q)
    IN  /\ (Returns("adjust_coeffs") /\ ~OvfI(ex) /\ ~OvfI(ey)) =>
               res = [tag |-> "ok", x |-> ex, y |-> ey]
        /\ Returns("checked_adjust_coeffs") =>
               /\ p >= q => res.x = Some(x)
               /\ q >= p => res.y = Some(y)
               /\ res.x = (IF OvfI(ex) THEN [tag |-> "None"] ELSE Some(ex))
               /\ res.y = (IF OvfI(ey) THEN [tag |-> "None"] ELSE Some(ey))
               /\ (res.x.tag = "Some" /\ res.y.tag = "Some") =>
                      adjust_coeffs(x, p, y, q)
                          = [tag |-> "ok", x |-> res.x.v, y |-> res.y.v]

\* C5 happens: checked_adjust_coeffs rescaled a non-zero x to the larger
\* scale of y and left y alone.
C5_Witness ==
    /\ Returns("checked_adjust_coeffs")
    /\ arg[2] < arg[4]
    /\ arg[1] # 0
    /\ res.x.tag = "Some"
    /\ res.x.v = arg[1] * Pow(10, arg[4] - arg[2])
    /\ res.y = Some(arg[3])

\* C6: TryInto<T>::try_into(d) returns Ok(v) exactly when d is an integral
\* value representable in T, and then v * 10^n_frac_digits = coeff; it
\* returns Err(NotAnIntValue) exactly when d is not integral, also when the
\* value is out of T's range as well; and it returns Err(ValueOutOfRange)
\* exactly when d is integral but outside T's range (never for T = i128).
C6_TryIntoInt ==
    Returns("try_into") =>
        LET d        == arg[1]
            T        == arg[2]
            t        == Pow(10, d.n_frac_digits)
            integral == d.coeff % t = 0
            v        == d.coeff \div t
            inRange  == TypeMin(T) <= v /\ v <= TypeMax(T)
        IN  /\ res.tag = "Ok" <=> (integral /\ inRange)
            /\ res.tag = "Ok" => res.v * t = d.coeff
            /\ res = Err("NotAnIntValue") <=> ~integral
            /\ res = Err("ValueOutOfRange") <=> (integral /\ ~inRange)
            /\ T = T_i128 => res # Err("ValueOutOfRange")

\* C6 happens: a Decimal with fractional digits and a non-zero integral
\* value was converted to a type of the macro.
C6_Witness ==
    /\ Returns("try_into")
    /\ arg[1].n_frac_digits > 0
    /\ arg[1].coeff # 0
    /\ arg[2] # T_i128
    /\ res.tag = "Ok"

\* C7: for every pair of u128 values x, y, u128_mul_u128(x, y) returns
\* (high, low) with high * 2^128 + low = x * y exactly, and none of its
\* intermediate sums or partial products exceeds the 128-bit accumulator.
C7_MulExact ==
    Returns("u128_mul_u128") =>
        /\ res.tag = "ok"
        /\ ~res.ovf
        /\ res.hi * TwoW + res.lo = arg[1] * arg[2]

\* C7 happens: two operands with non-zero high half words were multiplied
\* into a product with a non-zero high word.
C7_Witness ==
    /\ Returns("u128_mul_u128")
    /\ u128_hi(arg[1]) > 0
    /\ u128_hi(arg[2]) > 0
    /\ u128_lo(arg[1]) * u128_lo(arg[2]) >= B
    /\ res.tag = "ok"
    /\ res.hi > 0

\* C8: for every 256-bit dividend X = xh * 2^128 + xl and every u128
\* divisor y # 0, u256_idiv_u128 leaves in (xh, xl) the quotient
\* floor(X / y) and returns the remainder X mod y, whichever of the three
\* tiers of the dispatch is taken.
C8_IdivExact ==
    Returns("u256_idiv_u128") =>
        /\ res.tag = "ok"
        /\ res.tier \in {1, 2, 3}
        /\ (res.xh * TwoW + res.xl) * arg[3] + res.r = arg[1] * TwoW + arg[2]
        /\ 0 <= res.r /\ res.r < arg[3]
        /\ res.xh \in U128 /\ res.xl \in U128

\* C8 happens: a divisor of two half words divided a dividend whose high
\* word is not below it, with a non-zero remainder.
C8_Witness ==
    /\ Returns("u256_idiv_u128")
    /\ arg[3] >= B
    /\ arg[1] >= arg[3]
    /\ res.tag = "ok"
    /\ res.tier = 3
    /\ res.xh > 0
    /\ res.r > 0

\* C9: in u256_idiv_u128_special, for every y >= 2^64 and every xh < y,
\* each of the two correction loops ends after at most two decrements; on
\* exit the digit is below 2^64 and q1 * y <= xn32 * 2^64 + xn1 (q0 * y <=
\* t * 2^64 + xn0), so that the partial remainder is non-negative and below
\* the normalized divisor; and the checked products and sums of the loop
\* conditions stay within 128 bits.
C9_CorrectionLoops ==
    (Returns("u256_idiv_u128") /\ res.tag = "ok" /\ res.sp.called) =>
        LET sp == res.sp
        IN  /\ sp.n1 <= 2 /\ sp.n0 <= 2
            /\ sp.q1 < B /\ sp.q0 < B
            /\ sp.q1 * sp.yn <= sp.xn32 * B + sp.xn1
            /\ sp.q0 * sp.yn <= sp.t * B + sp.xn0
            /\ 0 <= sp.tExact /\ sp.tExact < sp.yn
            /\ 0 <= sp.rExact /\ sp.rExact < sp.yn
            /\ ~sp.ovf

\* C9 happens: the first correction loop of a call decremented its digit
\* twice and the second one at least once.
C9_Witness ==
    /\ Returns("u256_idiv_u128")
    /\ res.tag = "ok"
    /\ res.tier = 2
    /\ res.sp.n1 = 2
    /\ res.sp.n0 >= 1

\* C10: Signed::abs_sub(a, b) is the positive difference of a and b:
\* Decimal::ZERO when a <= b and a - b otherwise, never negative; and
\* signum(a) is -1, 0 or +1 as a is negative, zero or positive.
C10_AbsSubSignum ==
    /\ Returns("abs_sub") =>
           /\ cmp(arg[1], arg[2]) # "Greater" => res = [tag |-> "ok", v |-> ZERO]
           /\ cmp(arg[1], arg[2]) = "Greater" => res = sub(arg[1], arg[2])
           /\ res.tag = "ok" => cmp(res.v, ZERO) # "Less"
    /\ Returns("signum") =>
           /\ res.tag = "ok"
           /\ is_negative(arg[1]) => res.v = new_raw(-1, 0)
           /\ cmp(arg[1], ZERO) = "Equal" => res.v = ZERO
           /\ is_positive(arg[1]) => res.v = ONE

\* C10, what the code does: abs_sub(a, b) is Decimal::ZERO when b <= a and
\* the negative difference a - b otherwise; signum is as claimed.
C10_AbsSubInverted ==
    /\ Returns("abs_sub") =>
           /\ cmp(arg[2], arg[1]) # "Greater" => res = [tag |-> "ok", v |-> ZERO]
           /\ cmp(arg[2], arg[1]) = "Greater" =>
                  /\ res = sub(arg[1], arg[2])
                  /\ res.tag = "ok" => cmp(res.v, ZERO) = "Less"
    /\ Returns("signum") =>
           /\ res.tag = "ok"
           /\ is_negative(arg[1]) => res.v = new_raw(-1, 0)
           /\ cmp(arg[1], ZERO) = "Equal" => res.v = ZERO
           /\ is_positive(arg[1]) => res.v = ONE

====
